------------------------------ MODULE Spec2Model ------------------------------
(***************************************************************************)
(* Model of the slip parser of src/main.py: parse_slip_text and            *)
(* parse_simple_amount, reached through the /parse-slip-text endpoint.     *)
(*                                                                         *)
(* A text is a sequence of characters; a character is a one-character      *)
(* string, a Thai code point being written "U+0E1A".  The regular          *)
(* expressions of the source are kept as syntax trees and matched by a     *)
(* backtracking matcher that lists the matches in the priority order of    *)
(* Python's re module, so that re.search is "the first match at the        *)
(* leftmost position".  datetime.strptime is the format's regular          *)
(* expression followed by the calendar check of the datetime constructor.  *)
(* A float is an exact decimal: the digits of its integer part without     *)
(* leading zeros and the digits of its fraction without trailing zeros.    *)
(***************************************************************************)
EXTENDS Integers, Sequences, FiniteSets, TLC

\* An optional value is None or Some(x); Val(o) is the x of Some(x).
None == <<>>
Some(x) == <<x>>
Val(o) == o[1]

\* body(v) for the value v of an expression, which is computed once, before
\* body uses it.
With(v, body(_)) == CHOOSE r \in {body(x) : x \in {v}} : TRUE

(***************************************************************************)
(* Characters.                                                             *)
(***************************************************************************)
Digits == {"0", "1", "2", "3", "4", "5", "6", "7", "8", "9"}
LowerLetters == <<"a", "b", "c", "d", "e", "f", "g", "h", "i", "j", "k", "l", "m", "n", "o", "p", "q", "r", "s", "t", "u", "v", "w", "x", "y", "z">>
UpperLetters == <<"A", "B", "C", "D", "E", "F", "G", "H", "I", "J", "K", "L", "M", "N", "O", "P", "Q", "R", "S", "T", "U", "V", "W", "X", "Y", "Z">>
Whitespace == {" ", "\n", "\t"}

IndexOf(seq, c) == IF \E i \in 1..Len(seq) : seq[i] = c
                   THEN CHOOSE i \in 1..Len(seq) : seq[i] = c
                   ELSE 0

\* str.lower() on one character: only cased letters change.
LowerChar(c) == IF IndexOf(UpperLetters, c) > 0
                THEN LowerLetters[IndexOf(UpperLetters, c)] ELSE c
UpperChar(c) == IF IndexOf(LowerLetters, c) > 0
                THEN UpperLetters[IndexOf(LowerLetters, c)] ELSE c

\* text.lower()
lower(s) == [i \in 1..Len(s) |-> LowerChar(s[i])]

\* s[a..b-1], the characters at positions a (inclusive) to b (exclusive).
Slice(s, a, b) == SubSeq(s, a, b - 1)

\* str.strip()
\* The positions of s whose character is not in the set cs.
NotInAt(s, cs) == {i \in 1..Len(s) : s[i] \notin cs}
Lowest(ns) == CHOOSE n \in ns : \A m \in ns : n <= m
Highest(ns) == CHOOSE n \in ns : \A m \in ns : n >= m
\* s without its leading, its trailing, its leading and trailing cs.
StripLeft(s, cs) ==
    IF NotInAt(s, cs) = {} THEN <<>> ELSE SubSeq(s, Lowest(NotInAt(s, cs)), Len(s))
StripRight(s, cs) ==
    IF NotInAt(s, cs) = {} THEN <<>> ELSE SubSeq(s, 1, Highest(NotInAt(s, cs)))
strip(s) == StripRight(StripLeft(s, Whitespace), Whitespace)

\* Does old occur in s at position i?
OccursAt(s, old, i, ic) ==
    /\ i + Len(old) - 1 <= Len(s)
    /\ \A k \in 1..Len(old) :
          IF ic THEN LowerChar(s[i + k - 1]) = LowerChar(old[k])
                ELSE s[i + k - 1] = old[k]

\* The first position from i on where old occurs in s, or 0.
FirstOccurrence(s, old, i, ic) ==
    LET at == {p \in i..(Len(s) - Len(old) + 1) : OccursAt(s, old, p, ic)}
    IN  IF at = {} THEN 0 ELSE CHOOSE p \in at : \A q \in at : p <= q

\* str.replace(old, new) and re.sub(re.escape(old), new, s, flags=IGNORECASE):
\* every non-overlapping occurrence, left to right.
RECURSIVE ReplaceFrom(_, _, _, _, _)
ReplaceFrom(s, old, new, i, ic) ==
    LET p == FirstOccurrence(s, old, i, ic)
    IN  IF p = 0 THEN SubSeq(s, i, Len(s))
        ELSE SubSeq(s, i, p - 1) \o new \o ReplaceFrom(s, old, new, p + Len(old), ic)
replace(s, old, new) == ReplaceFrom(s, old, new, 1, FALSE)
sub_ignorecase(old, new, s) == ReplaceFrom(s, old, new, 1, TRUE)

\* str.count(c) for a single character.
count(s, c) == Cardinality({i \in 1..Len(s) : s[i] = c})

\* int() of a short digit string; int() ignores surrounding whitespace.
DigitValue(c) == CHOOSE n \in 0..9 : ToString(n) = c
RECURSIVE IntOfDigits(_)
IntOfDigits(s) == IF s = <<>> THEN 0
                  ELSE 10 * IntOfDigits(SubSeq(s, 1, Len(s) - 1)) + DigitValue(s[Len(s)])
int(s) == IntOfDigits(strip(s))

\* str() of a natural number.
RECURSIVE str(_)
str(n) == IF n < 10 THEN <<ToString(n)>> ELSE str(n \div 10) \o <<ToString(n % 10)>>

(***************************************************************************)
(* Regular expressions (module re).                                        *)
(***************************************************************************)
Chr(c)          == [t |-> "chr", c |-> c]
Lit(w)          == [t |-> "lit", w |-> w]
In(S)           == [t |-> "in", s |-> S]
NotIn(S)        == [t |-> "notin", s |-> S]
Cat(rs)         == [t |-> "cat", rs |-> rs]
Alt(rs)         == [t |-> "alt", rs |-> rs]
Rep(r, lo, hi)  == [t |-> "rep", r |-> r, lo |-> lo, hi |-> hi, lazy |-> FALSE]
Lazy(r, lo, hi) == [t |-> "rep", r |-> r, lo |-> lo, hi |-> hi, lazy |-> TRUE]
Grp(n, r)       == [t |-> "grp", n |-> n, r |-> r]
Bol             == [t |-> "bol"]
Eol             == [t |-> "eol"]

Inf == 1000                          \* no upper limit of a repetition
Word(w)  == Lit(w)                                    \* a literal string
Star(r)  == Rep(r, 0, Inf)
Plus(r)  == Rep(r, 1, Inf)
Opt(r)   == Rep(r, 0, 1)
Dig      == In(Digits)                                \* \d
NonDig   == NotIn(Digits)                             \* \D
Spc      == In(Whitespace)                            \* \s
NonSpc   == NotIn(Whitespace)                         \* \S
DigN(n)  == Rep(Dig, n, n)                            \* \d{n}

\* One character against a literal or a class, with or without re.IGNORECASE.
ChrMatches(c, lit, ic) == IF ic THEN LowerChar(c) = LowerChar(lit) ELSE c = lit
InMatches(c, set, ic) ==
    c \in set \/ (ic /\ (LowerChar(c) \in set \/ UpperChar(c) \in set))

\* The sequences of ss one after the other.
RECURSIVE ConcatRange(_, _, _)
ConcatRange(ss, lo, hi) ==
    IF lo > hi THEN <<>>
    ELSE IF lo = hi THEN ss[lo]
    ELSE ConcatRange(ss, lo, (lo + hi) \div 2) \o ConcatRange(ss, (lo + hi) \div 2 + 1, hi)
ConcatAll(ss) == ConcatRange(ss, 1, Len(ss))

\* A match is [e |-> position after it, g |-> the groups captured], a group
\* being [n |-> its number or name, a |-> start, b |-> position after it].
\* Match(r, s, i, ic) lists the matches of r in s at position i, the one the
\* backtracking matcher reaches first coming first.
RECURSIVE Match(_, _, _, _)
RECURSIVE MatchCat(_, _, _, _, _, _)
RECURSIVE MatchRep(_, _, _, _, _)

\* The matches ms of a prefix, each followed by the matches rest(e) of what
\* comes after it.
Then(ms, rest(_)) ==
    IF ms = <<>> THEN <<>> ELSE
    ConcatAll([j \in 1..Len(ms) |->
                 LET tl == rest(ms[j].e)
                 IN  [x \in 1..Len(tl) |-> [e |-> tl[x].e, g |-> ms[j].g \o tl[x].g]]])

\* One character against a literal or a class.
IsOneChar(r) == r.t \in {"chr", "in", "notin"}
OneCharMatches(r, c, ic) ==
    CASE r.t = "chr" -> ChrMatches(c, r.c, ic)
      [] r.t = "in" -> InMatches(c, r.s, ic)
      [] r.t = "notin" -> ~InMatches(c, r.s, ic)

\* r{lo,hi} for a one-character r: the run of matching characters at i, as
\* many as possible first when greedy, as few as possible first when lazy.
RunRep(r, s, i, ic) ==
    LET cap == IF Len(s) - i + 1 < r.hi THEN Len(s) - i + 1 ELSE r.hi
        run == CHOOSE k \in 0..cap :
                   /\ \A j \in 0..(k - 1) : OneCharMatches(r.r, s[i + j], ic)
                   /\ k = cap \/ ~OneCharMatches(r.r, s[i + k], ic)
    IN  IF run < r.lo THEN <<>>
        ELSE [x \in 1..(run - r.lo + 1) |->
                 [e |-> IF r.lazy THEN i + r.lo + x - 1 ELSE i + run - x + 1,
                  g |-> <<>>]]

Match(r, s, i, ic) ==
    CASE IsOneChar(r) ->
           IF i <= Len(s) /\ OneCharMatches(r, s[i], ic)
           THEN <<[e |-> i + 1, g |-> <<>>]>> ELSE <<>>
      [] r.t = "lit" ->
           IF OccursAt(s, r.w, i, ic)
           THEN <<[e |-> i + Len(r.w), g |-> <<>>]>> ELSE <<>>
      [] r.t = "bol" -> IF i = 1 THEN <<[e |-> i, g |-> <<>>]>> ELSE <<>>
      [] r.t = "eol" -> IF i = Len(s) + 1 THEN <<[e |-> i, g |-> <<>>]>> ELSE <<>>
      [] r.t = "cat" -> MatchCat(r.rs, 1, Len(r.rs), s, i, ic)
      \* rs[1] | rs[2] | ... : the alternatives in the order written.
      [] r.t = "alt" -> ConcatAll([k \in 1..Len(r.rs) |-> Match(r.rs[k], s, i, ic)])
      [] r.t = "rep" -> IF IsOneChar(r.r) THEN RunRep(r, s, i, ic)
                        ELSE MatchRep(r, 0, s, i, ic)
      [] r.t = "grp" ->
           LET ms == Match(r.r, s, i, ic)
           IN  [k \in 1..Len(ms) |->
                   [e |-> ms[k].e,
                    g |-> ms[k].g \o <<[n |-> r.n, a |-> i, b |-> ms[k].e]>>]]

\* rs[lo], ..., rs[hi] in sequence from position i: the first half, then the
\* second half from where the first one ended.
MatchCat(rs, lo, hi, s, i, ic) ==
    IF lo > hi THEN <<[e |-> i, g |-> <<>>]>>
    ELSE IF lo = hi THEN Match(rs[lo], s, i, ic)
    ELSE Then(MatchCat(rs, lo, (lo + hi) \div 2, s, i, ic),
              LAMBDA e : MatchCat(rs, (lo + hi) \div 2 + 1, hi, s, e, ic))

\* r{lo,hi} after n repetitions: a greedy repetition tries one more first, a
\* lazy one tries to stop first.
MatchRep(r, n, s, i, ic) ==
    LET more == IF n < r.hi
                THEN Then(Match(r.r, s, i, ic), LAMBDA e : MatchRep(r, n + 1, s, e, ic))
                ELSE <<>>
        stop == IF n >= r.lo THEN <<[e |-> i, g |-> <<>>]>> ELSE <<>>
    IN  IF r.lazy THEN stop \o more ELSE more \o stop

\* Does group n take part in match m?  And its text.
HasGroup(m, n) == \E k \in 1..Len(m.g) : m.g[k].n = n
group(m, n, s) ==
    LET k == CHOOSE k \in 1..Len(m.g) : m.g[k].n = n
    IN  Slice(s, m.g[k].a, m.g[k].b)

\* re.match: the first match at the start of s, or None.
match(r, s, ic) ==
    LET ms == Match(r, s, 1, ic) IN IF ms = <<>> THEN None ELSE Some(ms[1])

\* re.search: the first match at the leftmost position that has one, or None.
search(r, s, ic) ==
    LET at == {p \in 1..(Len(s) + 1) : Match(r, s, p, ic) # <<>>}
    IN  IF at = {} THEN None ELSE Some(Match(r, s, Lowest(at), ic)[1])
(***************************************************************************)
(* Exceptions and floats.                                                  *)
(***************************************************************************)
\* The outcome of an expression that may raise: a value or an exception.
Ok(v)      == [ok |-> TRUE, v |-> v, exc |-> ""]
Raise(exc) == [ok |-> FALSE, v |-> <<>>, exc |-> exc]

\* float(num_str) for the strings the patterns can hand over: digits with at
\* most one dot and at least one digit; anything else raises ValueError.
float(s) ==
    LET dots == count(s, ".")
        p    == IndexOf(s, ".")
        ip   == IF p = 0 THEN s ELSE SubSeq(s, 1, p - 1)
        fp   == IF p = 0 THEN <<>> ELSE SubSeq(s, p + 1, Len(s))
    IN  IF /\ dots <= 1
           /\ \A i \in 1..Len(s) : s[i] \in Digits \cup {"."}
           /\ Len(s) > dots
        THEN Ok([ip |-> StripLeft(ip, {"0"}), fp |-> StripRight(fp, {"0"})])
        ELSE Raise("ValueError")

\* x > 0.99 and x > 0 on such a float.
GreaterThan099(x) ==
    \/ x.ip # <<>>
    \/ Len(x.fp) >= 3 /\ x.fp[1] = "9" /\ x.fp[2] = "9"
GreaterThan0(x) == x.ip # <<>> \/ x.fp # <<>>

(***************************************************************************)
(* datetime.strptime and the datetime constructor.                         *)
(***************************************************************************)
a_month == <<<<"j", "a", "n">>, <<"f", "e", "b">>, <<"m", "a", "r">>, <<"a", "p", "r">>, <<"m", "a", "y">>, <<"j", "u", "n">>,
             <<"j", "u", "l">>, <<"a", "u", "g">>, <<"s", "e", "p">>, <<"o", "c", "t">>, <<"n", "o", "v">>, <<"d", "e", "c">>>>

Range(lo, hi) == In({ToString(n) : n \in lo..hi})

\* The regular expression of one directive (_strptime.TimeRE).
DirectiveRE(tok) ==
    CASE tok = "%d" -> Grp("d", Alt(<<Cat(<<Chr("3"), Range(0, 1)>>),
                                      Cat(<<Range(1, 2), Dig>>),
                                      Cat(<<Chr("0"), Range(1, 9)>>),
                                      Range(1, 9),
                                      Cat(<<Chr(" "), Range(1, 9)>>)>>))
      [] tok = "%m" -> Grp("m", Alt(<<Cat(<<Chr("1"), Range(0, 2)>>),
                                      Cat(<<Chr("0"), Range(1, 9)>>),
                                      Range(1, 9)>>))
      [] tok = "%Y" -> Grp("Y", DigN(4))
      [] tok = "%y" -> Grp("y", DigN(2))
      [] tok = "%H" -> Grp("H", Alt(<<Cat(<<Chr("2"), Range(0, 3)>>),
                                      Cat(<<Range(0, 1), Dig>>),
                                      Dig>>))
      [] tok = "%M" -> Grp("M", Alt(<<Cat(<<Range(0, 5), Dig>>), Dig>>))
      [] tok = "%S" -> Grp("S", Alt(<<Cat(<<Chr("6"), Range(0, 1)>>),
                                      Cat(<<Range(0, 5), Dig>>),
                                      Dig>>))
      [] tok = "%b" -> Grp("b", Alt([k \in 1..12 |-> Word(a_month[k])]))
      [] tok \in Whitespace -> Plus(Spc)
      [] OTHER -> Chr(tok)

\* A format is the sequence of its directives and literal characters.
FormatRE(fmt) == Cat([k \in 1..Len(fmt) |-> DirectiveRE(fmt[k])])

IsLeap(y) == y % 4 = 0 /\ (y % 100 # 0 \/ y % 400 = 0)
DaysInMonth(y, m) ==
    IF m = 2 THEN (IF IsLeap(y) THEN 29 ELSE 28)
    ELSE IF m \in {4, 6, 9, 11} THEN 30 ELSE 31

\* datetime(year, month, day, hour, minute, second)
datetime(y, m, dd, hh, mm, ss) ==
    IF /\ y \in 1..9999 /\ m \in 1..12 /\ dd \in 1..DaysInMonth(y, m)
       /\ hh \in 0..23 /\ mm \in 0..59 /\ ss \in 0..59
    THEN Ok([year |-> y, month |-> m, day |-> dd,
             hour |-> hh, minute |-> mm, second |-> ss])
    ELSE Raise("ValueError")

\* datetime.strptime(data_string, fmt): the format's expression must match at
\* the start and leave nothing over; the fields default to 1900-01-01 00:00:00.
strptime(data_string, fmt) ==
    With(match(FormatRE(fmt), data_string, TRUE), LAMBDA found :
        IF found = None THEN Raise("ValueError")
        ELSE IF Val(found).e # Len(data_string) + 1 THEN Raise("ValueError")
        ELSE LET f(n) == group(Val(found), n, data_string)
                 has(n) == HasGroup(Val(found), n)
                 y  == IF has("Y") THEN int(f("Y"))
                       ELSE IF has("y")
                            THEN (IF int(f("y")) <= 68 THEN int(f("y")) + 2000
                                  ELSE int(f("y")) + 1900)
                            ELSE 1900
                 m  == IF has("m") THEN int(f("m"))
                       ELSE IF has("b") THEN IndexOf(a_month, lower(f("b")))
                            ELSE 1
                 dd == IF has("d") THEN int(f("d")) ELSE 1
                 hh == IF has("H") THEN int(f("H")) ELSE 0
                 mm == IF has("M") THEN int(f("M")) ELSE 0
                 ss == IF has("S") THEN int(f("S")) ELSE 0
             IN  datetime(y, m, dd, hh, mm, ss))

(***************************************************************************)
(* The pattern and format tables of parse_slip_text.                       *)
(***************************************************************************)
DotOrComma == In({".", ","})

\* \d{1,3}(?:[.,]\d{3})*(?:[.,]\d{1,2})?
GroupedNumeral ==
    Cat(<<Rep(Dig, 1, 3),
          Star(Cat(<<DotOrComma, DigN(3)>>)),
          Opt(Cat(<<DotOrComma, Rep(Dig, 1, 2)>>))>>)

\* total|amount|<ruam>|<yot>|<chamra>|<pen ngoen>
AmountKeyword ==
    <<Word(<<"t", "o", "t", "a", "l">>), Word(<<"a", "m", "o", "u", "n", "t">>), Word(<<"U+0E23", "U+0E27", "U+0E21">>), Word(<<"U+0E22", "U+0E2D", "U+0E14">>),
      Word(<<"U+0E0A", "U+0E33", "U+0E23", "U+0E30">>), Word(<<"U+0E40", "U+0E1B", "U+0E47", "U+0E19", "U+0E40", "U+0E07", "U+0E34", "U+0E19">>)>>
\* <baht>|baht|thb
CurrencyMarker == <<Word(<<"U+0E1A", "U+0E32", "U+0E17">>), Word(<<"b", "a", "h", "t">>), Word(<<"t", "h", "b">>)>>

amount_keywords_patterns ==
    << \* (?:total|...)\D*?(\d{1,3}(?:[.,]\d{3})*(?:[.,]\d{1,2})?)
       Cat(<<Alt(AmountKeyword), Lazy(NonDig, 0, Inf), Grp(1, GroupedNumeral)>>),
       \* (\d{1,3}(?:[.,]\d{3})*(?:[.,]\d{1,2})?)\D*?(?:<baht>|baht|thb|total|...)
       Cat(<<Grp(1, GroupedNumeral), Lazy(NonDig, 0, Inf),
             Alt(CurrencyMarker \o AmountKeyword)>>) >>

amount_patterns ==
    << \* (\d{1,3}(?:,\d{3})*(?:\.\d{2}))
       Grp(1, Cat(<<Rep(Dig, 1, 3), Star(Cat(<<Chr(","), DigN(3)>>)),
                    Cat(<<Chr("."), DigN(2)>>)>>)),
       \* (\d+\.\d{2})
       Grp(1, Cat(<<Plus(Dig), Chr("."), DigN(2)>>)),
       \* (\d{1,3}(?:,\d{3})*)
       Grp(1, Cat(<<Rep(Dig, 1, 3), Star(Cat(<<Chr(","), DigN(3)>>))>>)),
       \* (\d+)
       Grp(1, Plus(Dig)) >>

\* The Thai month names and abbreviations with their replacements, in the
\* order of the dictionary.
thai_month_map ==
    << <<<<"U+0E21", ".", "U+0E04", ".">>, <<"J", "a", "n">>>>, <<<<"U+0E01", ".", "U+0E1E", ".">>, <<"F", "e", "b">>>>, <<<<"U+0E21", "U+0E35", ".", "U+0E04", ".">>, <<"M", "a", "r">>>>,
       <<<<"U+0E40", "U+0E21", ".", "U+0E22", ".">>, <<"A", "p", "r">>>>, <<<<"U+0E1E", ".", "U+0E04", ".">>, <<"M", "a", "y">>>>, <<<<"U+0E21", "U+0E34", ".", "U+0E22", ".">>, <<"J", "u", "n">>>>,
       <<<<"U+0E01", ".", "U+0E04", ".">>, <<"J", "u", "l">>>>, <<<<"U+0E2A", ".", "U+0E04", ".">>, <<"A", "u", "g">>>>, <<<<"U+0E01", ".", "U+0E22", ".">>, <<"S", "e", "p">>>>,
       <<<<"U+0E15", ".", "U+0E04", ".">>, <<"O", "c", "t">>>>, <<<<"U+0E1E", ".", "U+0E22", ".">>, <<"N", "o", "v">>>>, <<<<"U+0E18", ".", "U+0E04", ".">>, <<"D", "e", "c">>>>,
       <<<<"U+0E21", "U+0E01", "U+0E23", "U+0E32", "U+0E04", "U+0E21">>, <<"J", "a", "n", "u", "a", "r", "y">>>>, <<<<"U+0E01", "U+0E38", "U+0E21", "U+0E20", "U+0E32", "U+0E1E", "U+0E31", "U+0E19", "U+0E18", "U+0E4C">>, <<"F", "e", "b", "r", "u", "a", "r", "y">>>>,
       <<<<"U+0E21", "U+0E35", "U+0E19", "U+0E32", "U+0E04", "U+0E21">>, <<"M", "a", "r", "c", "h">>>>, <<<<"U+0E40", "U+0E21", "U+0E29", "U+0E32", "U+0E22", "U+0E19">>, <<"A", "p", "r", "i", "l">>>>,
       <<<<"U+0E1E", "U+0E24", "U+0E29", "U+0E20", "U+0E32", "U+0E04", "U+0E21">>, <<"M", "a", "y">>>>, <<<<"U+0E21", "U+0E34", "U+0E16", "U+0E38", "U+0E19", "U+0E32", "U+0E22", "U+0E19">>, <<"J", "u", "n", "e">>>>,
       <<<<"U+0E01", "U+0E23", "U+0E01", "U+0E0E", "U+0E32", "U+0E04", "U+0E21">>, <<"J", "u", "l", "y">>>>, <<<<"U+0E2A", "U+0E34", "U+0E07", "U+0E2B", "U+0E32", "U+0E04", "U+0E21">>, <<"A", "u", "g", "u", "s", "t">>>>,
       <<<<"U+0E01", "U+0E31", "U+0E19", "U+0E22", "U+0E32", "U+0E22", "U+0E19">>, <<"S", "e", "p", "t", "e", "m", "b", "e", "r">>>>, <<<<"U+0E15", "U+0E38", "U+0E25", "U+0E32", "U+0E04", "U+0E21">>, <<"O", "c", "t", "o", "b", "e", "r">>>>,
       <<<<"U+0E1E", "U+0E24", "U+0E28", "U+0E08", "U+0E34", "U+0E01", "U+0E32", "U+0E22", "U+0E19">>, <<"N", "o", "v", "e", "m", "b", "e", "r">>>>, <<<<"U+0E18", "U+0E31", "U+0E19", "U+0E27", "U+0E32", "U+0E04", "U+0E21">>, <<"D", "e", "c", "e", "m", "b", "e", "r">>>> >>

DateSep == In({"-", "/"})                           \* [-/]
\* (?:Jan|Feb|Mar|Apr|May|Jun|Jul|Aug|Sep|Oct|Nov|Dec)[a-z]*
MonthName ==
    Cat(<<Alt(<<Word(<<"J", "a", "n">>), Word(<<"F", "e", "b">>), Word(<<"M", "a", "r">>), Word(<<"A", "p", "r">>),
                Word(<<"M", "a", "y">>), Word(<<"J", "u", "n">>), Word(<<"J", "u", "l">>), Word(<<"A", "u", "g">>),
                Word(<<"S", "e", "p">>), Word(<<"O", "c", "t">>), Word(<<"N", "o", "v">>), Word(<<"D", "e", "c">>)>>),
          Star(In({LowerLetters[k] : k \in 1..26}))>>)
DMY4 == <<DigN(2), DateSep, DigN(2), DateSep, DigN(4)>>  \* \d{2}[-/]\d{2}[-/]\d{4}
DMY2 == <<DigN(2), DateSep, DigN(2), DateSep, DigN(2)>>  \* \d{2}[-/]\d{2}[-/]\d{2}
YMD  == <<DigN(4), DateSep, DigN(2), DateSep, DigN(2)>>  \* \d{4}[-/]\d{2}[-/]\d{2}
HMS  == <<DigN(2), Chr(":"), DigN(2), Chr(":"), DigN(2)>> \* \d{2}:\d{2}:\d{2}
HM   == <<DigN(2), Chr(":"), DigN(2)>>                   \* \d{2}:\d{2}

datetime_patterns ==
    << Grp(1, Cat(DMY4 \o <<Plus(Spc)>> \o HMS)),   \* DD-MM-YYYY HH:MM:SS
       Grp(1, Cat(DMY4 \o <<Plus(Spc)>> \o HM)),    \* DD-MM-YYYY HH:MM
       Grp(1, Cat(DMY2 \o <<Plus(Spc)>> \o HMS)),   \* DD-MM-YY HH:MM:SS
       Grp(1, Cat(DMY2 \o <<Plus(Spc)>> \o HM)),    \* DD-MM-YY HH:MM
       \* D Mon YYYY HH:MM
       Grp(1, Cat(<<Rep(Dig, 1, 2), Plus(Spc), MonthName, Plus(Spc), DigN(4),
                    Plus(Spc)>> \o HM)),
       \* D Mon YY HH:MM
       Grp(1, Cat(<<Rep(Dig, 1, 2), Plus(Spc), MonthName, Plus(Spc), DigN(2),
                    Plus(Spc)>> \o HM)),
       Grp(1, Cat(YMD \o <<Plus(Spc)>> \o HMS)),    \* YYYY-MM-DD HH:MM:SS
       Grp(1, Cat(YMD \o <<Plus(Spc)>> \o HM)),     \* YYYY-MM-DD HH:MM
       Grp(1, Cat(DMY4)),                           \* DD-MM-YYYY
       Grp(1, Cat(DMY2)),                           \* DD-MM-YY
       Grp(1, Cat(HMS)),                            \* HH:MM:SS (time only)
       Grp(1, Cat(HM)) >>                           \* HH:MM (time only)

date_formats ==
    << <<"%d", "-", "%m", "-", "%Y", " ", "%H", ":", "%M", ":", "%S">>, <<"%d", "/", "%m", "/", "%Y", " ", "%H", ":", "%M", ":", "%S">>,
       <<"%d", "-", "%m", "-", "%Y", " ", "%H", ":", "%M">>, <<"%d", "/", "%m", "/", "%Y", " ", "%H", ":", "%M">>,
       <<"%d", "-", "%m", "-", "%y", " ", "%H", ":", "%M", ":", "%S">>, <<"%d", "/", "%m", "/", "%y", " ", "%H", ":", "%M", ":", "%S">>,
       <<"%d", "/", "%m", "/", "%y", " ", "%H", ":", "%M">>, <<"%d", "-", "%m", "-", "%y", " ", "%H", ":", "%M">>,
       <<"%d", " ", "%b", " ", "%Y", " ", "%H", ":", "%M">>, <<"%d", " ", "%b", " ", "%y", " ", "%H", ":", "%M">>,
       <<"%Y", "-", "%m", "-", "%d", " ", "%H", ":", "%M", ":", "%S">>, <<"%Y", "-", "%m", "-", "%d", " ", "%H", ":", "%M">>,
       <<"%d", "-", "%m", "-", "%Y">>, <<"%d", "/", "%m", "/", "%Y">>,
       <<"%d", "-", "%m", "-", "%y">>, <<"%d", "/", "%m", "/", "%y">>,
       <<"%H", ":", "%M", ":", "%S">>, <<"%H", ":", "%M">> >>

\* A label of the first reference pattern followed by \s*
Label(w) == Cat(<<Word(w), Star(Spc)>>)

ref_patterns ==
    << \* (?:Ref\s*|Reference\s*|...)(\S{8,40})
       Cat(<<Alt(<<Label(<<"R", "e", "f">>), Label(<<"R", "e", "f", "e", "r", "e", "n", "c", "e">>), Label(<<"U+0E40", "U+0E25", "U+0E02", "U+0E17", "U+0E35", "U+0E48", "U+0E2D", "U+0E49", "U+0E32", "U+0E07", "U+0E2D", "U+0E34", "U+0E07">>),
                   Label(<<"R", "e", "f", " ", "N", "o", ".">>), Label(<<"T", "R", "A", "N", " ", "I", "D", ":">>), Label(<<"T", "R", "N", " ", "I", "D", ":">>),
                   Label(<<"T", "r", "x", " ", "R", "e", "f", ":">>), Label(<<"T", "R", "N">>), Label(<<"T", "x", "n">>),
                   Label(<<"T", "r", "a", "n", "s", "a", "c", "t", "i", "o", "n", " ", "N", "o", ".">>), Label(<<"U+0E2B", "U+0E21", "U+0E32", "U+0E22", "U+0E40", "U+0E25", "U+0E02", "U+0E2D", "U+0E49", "U+0E32", "U+0E07", "U+0E2D", "U+0E34", "U+0E07">>),
                   Label(<<"U+0E23", "U+0E2B", "U+0E31", "U+0E2A", "U+0E2D", "U+0E49", "U+0E32", "U+0E07", "U+0E2D", "U+0E34", "U+0E07">>), Label(<<"U+0E23", "U+0E2B", "U+0E31", "U+0E2A", "U+0E23", "U+0E32", "U+0E22", "U+0E01", "U+0E32", "U+0E23">>),
                   Label(<<"U+0E2B", "U+0E21", "U+0E32", "U+0E22", "U+0E40", "U+0E25", "U+0E02", "U+0E23", "U+0E32", "U+0E22", "U+0E01", "U+0E32", "U+0E23">>), Label(<<"U+0E40", "U+0E25", "U+0E02", "U+0E17", "U+0E35", "U+0E48", "U+0E2D", "U+0E49", "U+0E32", "U+0E07", "U+0E2D", "U+0E34", "U+0E07", "U+0E23", "U+0E32", "U+0E22", "U+0E01", "U+0E32", "U+0E23">>)>>),
             Grp(1, Rep(NonSpc, 8, 40))>>),
       \* (\d{10,30})
       Grp(1, Rep(Dig, 10, 30)),
       \* (?:R\s*|TID\s*|Tran ID\s*|Ref\s*)\s*(\d{6,25})
       Cat(<<Alt(<<Label(<<"R">>), Label(<<"T", "I", "D">>), Label(<<"T", "r", "a", "n", " ", "I", "D">>), Label(<<"R", "e", "f">>)>>),
             Star(Spc), Grp(1, Rep(Dig, 6, 25))>>),
       \* ([A-Z0-9]{8,40})
       Grp(1, Rep(In({UpperLetters[k] : k \in 1..26} \cup Digits), 8, 40)) >>

(***************************************************************************)
(* parse_simple_amount                                                     *)
(***************************************************************************)
LastIndexOf(s, c) == IF \E i \in 1..Len(s) : s[i] = c
                     THEN CHOOSE i \in 1..Len(s) :
                              s[i] = c /\ \A j \in (i + 1)..Len(s) : s[j] # c
                     ELSE 0

\* parts = num_str.split('.'); "".join(parts[:-1]) + "." + parts[-1]
JoinAllButLastDot(num_str) ==
    LET p == LastIndexOf(num_str, ".")
    IN  replace(SubSeq(num_str, 1, p - 1), <<".">>, <<>>)
        \o SubSeq(num_str, p, Len(num_str))

\* ^\s*(\d{1,3}(?:[.,]\d{3})*(?:[.,]\d{1,2})?)\s*(?:<baht>|baht|thb|$)
SimpleAmountRE ==
    Cat(<<Bol, Star(Spc), Grp(1, GroupedNumeral), Star(Spc),
          Alt(CurrencyMarker \o <<Eol>>)>>)
\* ^\s*(\d+(?:\.\d+)?)\s*$
SimpleAmountFallbackRE ==
    Cat(<<Bol, Star(Spc), Grp(1, Cat(<<Plus(Dig), Opt(Cat(<<Chr("."), Plus(Dig)>>))>>)),
          Star(Spc), Eol>>)

\* The fallback of parse_simple_amount on text.strip(): a bare number over the
\* whole text.
SimpleAmountFallback(stripped) ==
    With(search(SimpleAmountFallbackRE, stripped, FALSE), LAMBDA m :
        IF m = None THEN None
        ELSE With(float(group(Val(m), 1, stripped)), LAMBDA r :
                 IF ~r.ok THEN None
                 ELSE IF GreaterThan0(r.v) THEN Some(r.v) ELSE None))

\* The first search of parse_simple_amount: the amount returned, None when the
\* function goes on to its fallback, or the ValueError that makes it return
\* None.
SimpleAmount(stripped) ==
    With(search(SimpleAmountRE, stripped, TRUE), LAMBDA m :
        IF m = None THEN Ok(None)
        ELSE With(replace(group(Val(m), 1, stripped), <<",">>, <<>>), LAMBDA g :
                 With(float(IF count(g, ".") > 1 THEN JoinAllButLastDot(g) ELSE g),
                      LAMBDA r : IF ~r.ok THEN r
                                 ELSE IF GreaterThan0(r.v) THEN Ok(Some(r.v))
                                 ELSE Ok(None))))
\* parse_simple_amount(text): the amount, or None.
parse_simple_amount(text) ==
    With(strip(text), LAMBDA stripped :
        With(SimpleAmount(stripped), LAMBDA first :
            IF ~first.ok THEN None
            ELSE IF first.v # None THEN first.v
            ELSE SimpleAmountFallback(stripped)))

(***************************************************************************)
(* parse_slip_text: the amount.                                            *)
(***************************************************************************)
\* A handler that catches another exception than the one raised.
ExceptValueError_TypeError(exc) == exc = "TypeError"
\* "except ValueError" of the amount and date loops.
ExceptValueError(exc) == exc = "ValueError"

\* The test of parse_simple_amount, amount > 0, in the place of amount > 0.99.
AboveNoise_AnyPositive(amount) == GreaterThan0(amount)
\* amount > 0.99, the test that keeps a candidate.
AboveNoise(amount) == GreaterThan099(amount)

\* match.group(1).replace(',', '').replace('.', '@').replace('@', '.') and the
\* handling of more than one dot.
KeywordNumStr(g) ==
    With(replace(replace(replace(g, <<",">>, <<>>), <<".">>, <<"@">>),
                 <<"@">>, <<".">>),
         LAMBDA num_str : IF count(num_str, ".") > 1 THEN replace(num_str, <<".">>, <<>>)
                          ELSE num_str)

\* One pass of the loop over amount_keywords_patterns: the amount that ends
\* the loop, None when the loop goes on, or the exception that escapes.
KeywordPass(lower_text, k) ==
    With(search(amount_keywords_patterns[k], lower_text, TRUE), LAMBDA m :
        IF m = None THEN Ok(None)
        ELSE With(float(KeywordNumStr(group(Val(m), 1, lower_text))), LAMBDA r :
                 IF r.ok THEN (IF AboveNoise(r.v) THEN Ok(Some(r.v)) ELSE Ok(None))
                 ELSE IF ExceptValueError(r.exc) THEN Ok(None) ELSE Raise(r.exc)))

\* Does the outcome of a pass end its loop?
Ends(outcome) == ~outcome.ok \/ outcome.v # None

\* The outcome of the first of the passes lo..hi of a loop that ends it, or
\* of the last pass: the first half of the passes, then the second half when
\* the loop goes on.
RECURSIVE Loop(_, _, _)
Loop(pass(_), lo, hi) ==
    IF lo = hi THEN pass(lo)
    ELSE With(Loop(pass, lo, (lo + hi) \div 2),
              LAMBDA outcome : IF Ends(outcome) THEN outcome
                               ELSE Loop(pass, (lo + hi) \div 2 + 1, hi))

\* The loop over amount_keywords_patterns: the first pass that ends it.
KeywordTier(lower_text) ==
    Loop(LAMBDA k : KeywordPass(lower_text, k), 1, Len(amount_keywords_patterns))

\* One pass of the loop over amount_patterns.
FallbackPass(lower_text, k) ==
    With(search(amount_patterns[k], lower_text, FALSE), LAMBDA m :
        IF m = None THEN Ok(None)
        ELSE With(float(replace(group(Val(m), 1, lower_text), <<",">>, <<>>)), LAMBDA r :
                 IF r.ok THEN (IF AboveNoise(r.v) THEN Ok(Some(r.v)) ELSE Ok(None))
                 ELSE IF ExceptValueError(r.exc) THEN Ok(None) ELSE Raise(r.exc)))

\* The loop over amount_patterns: the first pass that ends it.
FallbackTier(lower_text) ==
    Loop(LAMBDA k : FallbackPass(lower_text, k), 1, Len(amount_patterns))

ParseAmount(lower_text) ==
    With(KeywordTier(lower_text), LAMBDA amount :
        IF amount.ok /\ amount.v = None THEN FallbackTier(lower_text) ELSE amount)

(***************************************************************************)
(* parse_slip_text: the date and time.                                     *)
(***************************************************************************)
\* The Thai month names lo..hi of the dictionary replaced one after the other:
\* the first half of them, then the second half over the result.
RECURSIVE ReplaceThaiMonths(_, _, _)
ReplaceThaiMonths(text, lo, hi) ==
    IF lo = hi
    THEN sub_ignorecase(thai_month_map[lo][1], thai_month_map[lo][2], text)
    ELSE With(ReplaceThaiMonths(text, lo, (lo + hi) \div 2),
              LAMBDA replaced : ReplaceThaiMonths(replaced, (lo + hi) \div 2 + 1, hi))
processed_text_for_date(text) == ReplaceThaiMonths(text, 1, Len(thai_month_map))

\* re.search(r'\d{4}', s): the first run of four digits as a number, or 0.
YearIn(s) ==
    With(search(DigN(4), s, FALSE),
         LAMBDA m : IF m = None THEN 0 ELSE int(Slice(s, Val(m).e - 4, Val(m).e)))

\* A year above 2500 is taken for a Buddhist year.
IsBuddhist(year) == year > 2500

\* The Buddhist year of a string converted when the format has %Y.
ConvertYear(s, fmt) ==
    IF \E k \in 1..Len(fmt) : fmt[k] = "%Y"
    THEN With(YearIn(s), LAMBDA year : IF IsBuddhist(year)
                                       THEN replace(s, str(year), str(year - 543))
                                       ELSE s)
    ELSE s

\* The body of the loop over date_formats for one format: the Buddhist year
\* of the matched text converted, then the parse.
TryFormat(date_str, fmt) ==
    With(ConvertYear(date_str, fmt),
         LAMBDA date_str_gregorian : strptime(date_str_gregorian, fmt))

\* One pass of the loop over date_formats: the datetime parsed, None when the
\* loop goes on, or the exception that escapes.
FormatPass(date_str, k) ==
    With(TryFormat(date_str, date_formats[k]),
         LAMBDA r : IF r.ok THEN Ok(Some(r.v))
                    ELSE IF ExceptValueError(r.exc) THEN Ok(None) ELSE Raise(r.exc))

\* The loop over date_formats: the first pass that ends it.
FormatLoop(date_str) == Loop(LAMBDA k : FormatPass(date_str, k), 1, Len(date_formats))

\* The test for strptime's default date with the year alone compared.
IsTimeOnly_YearOnly(dt) == dt.year = 1900
\* Only a time was parsed: the date is strptime's default.
IsTimeOnly(dt) == dt.year = 1900 /\ dt.month = 1 /\ dt.day = 1

\* current_time_bangkok.replace(hour=..., minute=..., second=..., ...)
CombineWithToday(dt, now) ==
    IF IsTimeOnly(dt)
    THEN [year |-> now.year, month |-> now.month, day |-> now.day,
          hour |-> dt.hour, minute |-> dt.minute, second |-> dt.second]
    ELSE dt

\* One pass of the loop over datetime_patterns: the text matched with the
\* datetime parsed from it, None when the loop goes on, or the exception.
ShapePass(processed, k) ==
    With(search(datetime_patterns[k], processed, TRUE), LAMBDA m :
        IF m = None THEN Ok(None)
        ELSE With(group(Val(m), 1, processed), LAMBDA date_str :
                 With(FormatLoop(date_str), LAMBDA r :
                     IF ~r.ok \/ r.v = None THEN r
                     ELSE Ok(Some([date_str |-> date_str, dt |-> Val(r.v)])))))

\* The loop over datetime_patterns: the first pass that ends it.
ShapeLoop(processed) ==
    Loop(LAMBDA k : ShapePass(processed, k), 1, Len(datetime_patterns))

\* return_date_time: the parse of the first pattern that has one, its date
\* taken from the clock when only a time was parsed.
ParseDateTime(text, now) ==
    With(processed_text_for_date(text), LAMBDA processed :
        With(ShapeLoop(processed), LAMBDA r :
            IF ~r.ok \/ r.v = None THEN r
            ELSE Ok(Some(CombineWithToday(Val(r.v).dt, now)))))

(***************************************************************************)
(* parse_slip_text: the reference number.                                  *)
(***************************************************************************)
\* "except (ValueError, AttributeError)" of the date check of a reference.
ExceptInRefCheck(exc) == exc \in {"ValueError", "AttributeError"}

\* One pass of the date check of a candidate: temp_dt_str with the Buddhist
\* year converted, and TRUE when it parses, None when the loop goes on, or the
\* exception that escapes.
RefDatePass(temp_dt_str, k) ==
    With(ConvertYear(temp_dt_str, date_formats[k]), LAMBDA converted :
        With(strptime(converted, date_formats[k]), LAMBDA r :
            [temp_dt_str |-> converted,
             outcome     |-> IF r.ok THEN Ok(Some(TRUE))
                             ELSE IF ExceptInRefCheck(r.exc) THEN Ok(None)
                             ELSE Raise(r.exc)]))

\* The passes lo..hi of the date check, temp_dt_str keeping every conversion
\* made: the first half of the passes, then the second half when the loop
\* goes on.
RECURSIVE RefDatePasses(_, _, _)
RefDatePasses(temp_dt_str, lo, hi) ==
    IF lo = hi THEN RefDatePass(temp_dt_str, lo)
    ELSE With(RefDatePasses(temp_dt_str, lo, (lo + hi) \div 2),
              LAMBDA left : IF Ends(left.outcome) THEN left
                            ELSE RefDatePasses(left.temp_dt_str, (lo + hi) \div 2 + 1, hi))

\* The date check of a candidate: is_date_or_time, or the exception that
\* escapes.
RefDateLoop(temp_dt_str) ==
    With(RefDatePasses(temp_dt_str, 1, Len(date_formats)).outcome,
         LAMBDA outcome : IF outcome.ok THEN Ok(outcome.v # None) ELSE outcome)

is_date_or_time(reference_no) ==
    With(replace(replace(reference_no, <<"/">>, <<"-">>), <<" ">>, <<" ">>),
         LAMBDA temp_dt_str : RefDateLoop(temp_dt_str))

\* One pass of the loop over ref_patterns: the reference that ends the loop,
\* None when the candidate is a date, a time or an amount, or the exception.
RefPass(lower_text, k) ==
    With(search(ref_patterns[k], lower_text, TRUE), LAMBDA m :
        IF m = None THEN Ok(None)
        ELSE With(strip(group(Val(m), 1, lower_text)), LAMBDA reference_no :
                 With(is_date_or_time(reference_no), LAMBDA isdate :
                     IF ~isdate.ok THEN isdate
                     ELSE IF isdate.v THEN Ok(None)
                     ELSE IF parse_simple_amount(reference_no) # None THEN Ok(None)
                     ELSE Ok(Some(reference_no)))))

\* The loop over ref_patterns: the first pass that ends it.
RefLoop(lower_text) ==
    Loop(LAMBDA k : RefPass(lower_text, k), 1, Len(ref_patterns))

(***************************************************************************)
(* parse_slip_text                                                         *)
(***************************************************************************)
\* The record returned, or the exception that ends the call.
parse_slip_text(text, now) ==
    With(<<ParseAmount(lower(text)), ParseDateTime(text, now), RefLoop(lower(text))>>,
         LAMBDA found :
             IF ~found[1].ok THEN Raise(found[1].exc)
             ELSE IF ~found[2].ok THEN Raise(found[2].exc)
             ELSE IF ~found[3].ok THEN Raise(found[3].exc)
             ELSE Ok([amount |-> found[1].v, date_time |-> found[2].v,
                      reference_no |-> found[3].v]))

(***************************************************************************)
(* The texts submitted and the wall clock.                                 *)
(***************************************************************************)
MaxCalls  == 2      \* invocations of the parser on the text
MaxTicks  == 1      \* days the wall clock advances
MaxRunLen == 14     \* longest bare digit run (from 10 digits)

\* The first n digits of 1234567890 1234567890 ...
DigitRun(n) == [i \in 1..n |-> ToString(i % 10)]
Zeros(n)    == [i \in 1..n |-> "0"]

Numerals ==
    { <<"1", ",", "2", "3", "4", ".", "5", "6">>, <<"1", "2", "3", "4", ".", "5", "6">>, <<"1", "2", "3", ".", "4", "5">>, <<"1", ",", "2", "3", "4">>, <<"1", ".", "0", "0", "0", ".", "0", "0">>,
      <<"0", ".", "9", "9">>, <<"0", ".", "9", "9", "5">>, <<"0">> }
AmountLabels   == { <<"T", "o", "t", "a", "l", " ">>, <<"U+0E22", "U+0E2D", "U+0E14", " ">>, <<>> }
CurrencyLabels == { <<>>, <<" ", "U+0E1A", "U+0E32", "U+0E17">> }
AmountTexts ==
    { k \o n \o c : k \in AmountLabels, n \in Numerals, c \in CurrencyLabels }

WrittenDates ==
    { <<"0", "7", "/", "0", "8", "/", "2", "5", "6", "8">>, <<"0", "7", "-", "0", "8", "-", "2", "0", "2", "5">>, <<"0", "7", "/", "0", "8", "/", "2", "5", "0", "0">>, <<"0", "7", "/", "0", "8", "/", "2", "5", "0", "1">>,
      <<"0", "1", "/", "0", "1", "/", "1", "9", "0", "0">>, <<"0", "5", "/", "0", "3", "/", "1", "9", "0", "0">>, <<"2", "9", "-", "0", "2", "-", "2", "5", "6", "8">>, <<"2", "9", "/", "0", "2", "/", "2", "0", "2", "3">>,
      <<"0", "7", "-", "0", "8", "/", "2", "0", "2", "5">>, <<"3", "1", "-", "1", "2", "-", "9", "9">>, <<"2", "0", "2", "5", "-", "0", "8", "-", "0", "7">>, <<"2", "0", "3", "1", "-", "0", "9", "-", "0", "7">>,
      <<"7", " ", "A", "u", "g", " ", "2", "5", "6", "8">>, <<"7", " ", "U+0E2A", ".", "U+0E04", ".", " ", "6", "8">> }
WrittenTimes == { <<>>, <<" ", "1", "4", ":", "3", "0">>, <<" ", "1", "4", ":", "3", "0", ":", "5", "9">> }
DateTexts ==
    { dt \o tm : dt \in WrittenDates, tm \in WrittenTimes }
    \cup { <<"1", "4", ":", "0", "5">>, <<"2", "3", ":", "5", "9", ":", "5", "9">>, <<"2", "3", ":", "5", "9", ":", "6", "0">>, <<"2", "4", ":", "0", "0">>, <<"9", ":", "0", "5">> }

RefLabels == { <<"R", "e", "f", " ">>, <<"r", "e", "f">>, <<"U+0E23", "U+0E2B", "U+0E31", "U+0E2A", "U+0E2D", "U+0E49", "U+0E32", "U+0E07", "U+0E2D", "U+0E34", "U+0E07", " ">>, <<>> }
RefTokens ==
    { <<"A", "B", "C", "D", "1", "2", "3", "4", "X", "Y">>, <<"K", "b", "2", "5", "A", "x", "0", "7">>, <<"0", "7", "/", "0", "8", "/", "2", "5", "6", "8">>, <<"1", "2", ":", "3", "4", ":", "5", "6">>, <<"2", "9", "-", "0", "2", "-", "2", "5", "6", "8">>,
      <<"2", "9", "-", "0", "2", "-", "3", "1", "1", "5">>, <<"0", "7", "-", "0", "8", "-", "2", "0", "2", "5">>, <<"1", "2", "3", "4", "5", "6">>, <<"1", ",", "2", "3", "4", ".", "5", "6">> }
RefTexts == { l \o tok : l \in RefLabels, tok \in RefTokens }

DigitRuns ==
    { DigitRun(n) : n \in 10..MaxRunLen } \cup { Zeros(n) : n \in 10..MaxRunLen }

Slips ==
    { <<>>, <<" ">>, <<"h", "e", "l", "l", "o">>, <<"a", "m", "o", "u", "n", "t", "1", "2", "3", "4", ".", "5", "6", " ", "T", "H", "B">>, <<"T", "R", "N", " ", "I", "D", ":", " ", "0", "0", "0", "1", "2", "3", "4", "5">>,
      <<"R", " ", "1", "2", "3", "4", "5", "6">>, <<"7", " ", "U+0E2A", "U+0E34", "U+0E07", "U+0E2B", "U+0E32", "U+0E04", "U+0E21", " ", "2", "5", "6", "8", " ", "1", "4", ":", "3", "0">>, <<"0", "1", "/", "0", "1", "/", "1", "9", "0", "0", "\n", "0", "9", ":", "0", "5">>,
      <<"U+0E42", "U+0E2D", "U+0E19", "U+0E40", "U+0E07", "U+0E34", "U+0E19", "U+0E2A", "U+0E33", "U+0E40", "U+0E23", "U+0E47", "U+0E08", "\n", "0", "7", " ", "U+0E2A", ".", "U+0E04", ".", " ", "6", "8", " ", "1", "4", ":", "3", "0", "\n", "U+0E23", "U+0E2B", "U+0E31", "U+0E2A", "U+0E2D", "U+0E49", "U+0E32", "U+0E07", "U+0E2D", "U+0E34", "U+0E07", " ", "2", "0", "2", "5", "0", "8", "0", "7", "1", "2", "3", "4", "5", "6", "7", "8", "\n", "U+0E08", "U+0E33", "U+0E19", "U+0E27", "U+0E19", " ", "1", ",", "2", "3", "4", ".", "5", "6", " ", "U+0E1A", "U+0E32", "U+0E17">>,
      <<"T", "r", "a", "n", "s", "f", "e", "r", "\n", "R", "e", "f", " ", "N", "o", ".", " ", "K", "B", "2", "5", "A", "X", "0", "7", "Q", "1", "\n", "0", "7", "/", "0", "8", "/", "2", "5", "6", "8", " ", "1", "4", ":", "3", "0", ":", "5", "9", "\n", "T", "o", "t", "a", "l", " ", "5", "0", "0", ".", "0", "0", " ", "T", "H", "B">> }

Texts == AmountTexts \cup DateTexts \cup RefTexts \cup DigitRuns \cup Slips

\* The Bangkok date of the first invocation, and the day after a date.
FirstDay == [year |-> 2025, month |-> 12, day |-> 30]
NextDay(date) ==
    IF date.day < DaysInMonth(date.year, date.month)
    THEN [date EXCEPT !.day = @ + 1]
    ELSE IF date.month < 12
         THEN [year |-> date.year, month |-> date.month + 1, day |-> 1]
         ELSE [year |-> date.year + 1, month |-> 1, day |-> 1]

(***************************************************************************)
(* The state machine: a text is submitted to /parse-slip-text, possibly    *)
(* more than once, while the wall clock advances.                          *)
(***************************************************************************)
VARIABLES
    text,       \* request.text
    now,        \* the date of datetime.now(bangkok_tz)
    ticks,      \* days the clock has advanced
    calls,      \* invocations made
    result,     \* None, or the outcome of the last invocation
    previous,   \* None, or the outcome of the invocation before
    called_on   \* the clock's date at each invocation, oldest first

vars == <<text, now, ticks, calls, result, previous, called_on>>

Init ==
    /\ text \in Texts
    /\ now = FirstDay
    /\ ticks = 0
    /\ calls = 0
    /\ result = None
    /\ previous = None
    /\ called_on = <<>>

\* parse_slip_text_direct: parse_slip_text(request.text)
ParseSlipTextDirect ==
    /\ calls < MaxCalls
    /\ calls' = calls + 1
    /\ previous' = result
    /\ result' = Some(parse_slip_text(text, now))
    /\ called_on' = Append(called_on, now)
    /\ UNCHANGED <<text, now, ticks>>

\* Midnight in Bangkok.
Tick ==
    /\ ticks < MaxTicks
    /\ ticks' = ticks + 1
    /\ now' = NextDay(now)
    /\ UNCHANGED <<text, calls, result, previous, called_on>>

Next == ParseSlipTextDirect \/ Tick

Spec == Init /\ [][Next]_vars

TypeOK ==
    /\ text \in Texts
    /\ calls \in 0..MaxCalls
    /\ ticks \in 0..MaxTicks

(***************************************************************************)
(* Properties.                                                             *)
(***************************************************************************)
\* The last invocation returned a record; the record.
Returned == result # None /\ Val(result).ok
Out == Val(result).v

IsSubstring(part, whole) ==
    \E i \in 1..(Len(whole) - Len(part) + 1) : Slice(whole, i, i + Len(part)) = part
FullMatch(r, s) == match(Cat(<<r, Eol>>), s, TRUE)

IsDigitRun(s) == Len(s) \in 10..30 /\ \A i \in 1..Len(s) : s[i] \in Digits
\* C1: a text that is nothing but a run of 10 to 30 digits comes back as the
\* reference number.
C1_DigitRunIsReference ==
    (Returned /\ IsDigitRun(text)) => Out.reference_no = Some(text)

\* C2: two invocations on the same text return the same outcome whatever the
\* clock shows at each.
C2_SameTextSameOutcome ==
    (result # None /\ previous # None) => result = previous

\* The text matched by the first date pattern that parses, and its parse.
WrittenDate(s) == With(processed_text_for_date(s), LAMBDA processed : ShapeLoop(processed))
WrittenDateIsEpoch(s) ==
    LET w == WrittenDate(s).v
    IN  w # None /\ Val(w).dt.year = 1900 /\ Val(w).dt.month = 1 /\ Val(w).dt.day = 1
TimeOfDay(date_time) ==
    IF date_time = None THEN None
    ELSE <<Val(date_time).hour, Val(date_time).minute, Val(date_time).second>>
\* C2 as amended: two invocations on the same text return the same amount, the
\* same reference number and the same time of day, and the same date unless
\* the date parsed from the text is 1 January 1900 (nothing but a time was
\* matched, or that date was written), when the date is the clock's.
C2_SameTextSameOutcomeButClockDate ==
    (result # None /\ previous # None) =>
        /\ Val(result).ok /\ Val(previous).ok
        /\ Out.amount = Val(previous).v.amount
        /\ Out.reference_no = Val(previous).v.reference_no
        /\ TimeOfDay(Out.date_time) = TimeOfDay(Val(previous).v.date_time)
        /\ IF WrittenDateIsEpoch(text)
           THEN /\ Val(Out.date_time).year = called_on[Len(called_on)].year
                /\ Val(Out.date_time).month = called_on[Len(called_on)].month
                /\ Val(Out.date_time).day = called_on[Len(called_on)].day
           ELSE Out.date_time = Val(previous).v.date_time
\* Two invocations on different days on a text with a written date.
C2_Witness ==
    /\ calls = 2 /\ called_on[1] # called_on[2]
    /\ Returned /\ Out.date_time # None /\ ~WrittenDateIsEpoch(text)
    /\ result = previous

ParsesUnderTemplate(s) ==
    \E k \in 1..Len(date_formats) : strptime(s, date_formats[k]).ok
\* C3: a string that parses under a template of date_formats is never the
\* reference number.
C3_DateIsNeverReference ==
    (Returned /\ Out.reference_no # None) => ~ParsesUnderTemplate(Val(Out.reference_no))

\* C4: the amount returned is null or above 0.99.
C4_AmountAboveThreshold ==
    (Returned /\ Out.amount # None) =>
        \/ Val(Out.amount).ip # <<>>
        \/ /\ Len(Val(Out.amount).fp) > 2
           /\ Val(Out.amount).fp[1] = "9" /\ Val(Out.amount).fp[2] = "9"
\* A text whose numbers are all at or below 0.99 has been parsed: every
\* pattern of both tiers was tried and the amount is null.
C4_Witness ==
    /\ Returned /\ Out.amount = None
    /\ search(amount_keywords_patterns[1], lower(text), TRUE) # None
    /\ search(amount_patterns[4], lower(text), FALSE) # None

\* C5: the reference number returned is a substring of the text as written,
\* with its letter case.
C5_ReferenceAsWritten ==
    (Returned /\ Out.reference_no # None) => IsSubstring(Val(Out.reference_no), text)

\* (?:\d{1,3}(?:,\d{3})+|\d+)(?:\.\d{1,2})?
WrittenNumeral ==
    Cat(<<Alt(<<Cat(<<Rep(Dig, 1, 3), Plus(Cat(<<Chr(","), DigN(3)>>))>>), Plus(Dig)>>),
          Opt(Cat(<<Chr("."), Rep(Dig, 1, 2)>>))>>)
KeywordAndNumeral ==
    Cat(<<Alt(AmountKeyword), Star(Spc), Grp("numeral", WrittenNumeral), Star(Spc),
          Opt(Alt(CurrencyMarker))>>)
NumeralValue(s) ==
    float(replace(group(Val(FullMatch(KeywordAndNumeral, s)), "numeral", s),
                  <<",">>, <<>>)).v
\* C6: when the text is an amount keyword, one decimal numeral with or
\* without grouping commas and possibly a currency marker, the amount is the
\* value of the whole numeral, if that is above 0.99.
C6_KeywordAmountIsWholeNumeral ==
    (/\ Returned
     /\ FullMatch(KeywordAndNumeral, text) # None
     /\ GreaterThan099(NumeralValue(text)))
    => Out.amount = Some(NumeralValue(text))

\* (\d{2})[-/](\d{2})[-/](\d{4})(?:\s+(\d{2}):(\d{2})(?::(\d{2}))?)?
WrittenDayMonthYear ==
    Cat(<<Grp("day", DigN(2)), DateSep, Grp("month", DigN(2)), DateSep,
          Grp("year", DigN(4)),
          Opt(Cat(<<Plus(Spc), Grp("hour", DigN(2)), Chr(":"), Grp("minute", DigN(2)),
                    Opt(Cat(<<Chr(":"), Grp("second", DigN(2))>>))>>))>>)
Field(m, n, s) == IF HasGroup(m, n) THEN int(group(m, n, s)) ELSE 0
AsWritten(m, s, year) ==
    [year |-> year, month |-> Field(m, "month", s), day |-> Field(m, "day", s),
     hour |-> Field(m, "hour", s), minute |-> Field(m, "minute", s),
     second |-> Field(m, "second", s)]
\* C7: when the text matched by the first date pattern that parses has a
\* four-digit year Y, the datetime has the year Y - 543 if Y > 2500 and Y
\* otherwise, and the day, month and time as written.
C7_BuddhistYearConverted ==
    (/\ Returned
     /\ WrittenDate(text).v # None
     /\ FullMatch(WrittenDayMonthYear, Val(WrittenDate(text).v).date_str) # None)
    => LET s == Val(WrittenDate(text).v).date_str
           m == Val(FullMatch(WrittenDayMonthYear, s))
           Y == Field(m, "year", s)
       IN  Out.date_time = Some(AsWritten(m, s, IF Y > 2500 THEN Y - 543 ELSE Y))

\* C8: every invocation returns a record of three fields, each a value or
\* null, and never ends in an exception; for the empty text all are null.
C8_AlwaysReturnsARecord ==
    result # None =>
        /\ Val(result).ok
        /\ DOMAIN Out = {"amount", "date_time", "reference_no"}
        /\ Len(Out.amount) <= 1 /\ Len(Out.date_time) <= 1 /\ Len(Out.reference_no) <= 1
        /\ (text = <<>> =>
               Out.amount = None /\ Out.date_time = None /\ Out.reference_no = None)
\* A date pattern matched, no template parsed what it matched, and the
\* invocation returned with no datetime.
C8_Witness ==
    /\ Returned /\ Out.date_time = None
    /\ \E k \in 1..Len(datetime_patterns) :
           search(datetime_patterns[k], processed_text_for_date(text), TRUE) # None

\* C9: in the keyword tier, a numeral that has more than one dot once its
\* commas are stripped loses every dot but the last, which is the decimal
\* point.
C9_LastDotIsDecimalPoint ==
    LET m == search(amount_keywords_patterns[1], lower(text), TRUE)
        g == replace(group(Val(m), 1, lower(text)), <<",">>, <<>>)
        p == LastIndexOf(g, ".")
        x == float(replace(SubSeq(g, 1, p - 1), <<".">>, <<>>) \o SubSeq(g, p, Len(g))).v
    IN  (Returned /\ m # None /\ count(g, ".") > 1 /\ GreaterThan099(x))
        => Out.amount = Some(x)

\* (\d{4})-(\d{2})-(\d{2}) (\d{2}):(\d{2})(?::(\d{2}))?
WrittenIso ==
    Cat(<<Grp("year", DigN(4)), Chr("-"), Grp("month", DigN(2)), Chr("-"),
          Grp("day", DigN(2)), Chr(" "), Grp("hour", DigN(2)), Chr(":"),
          Grp("minute", DigN(2)), Opt(Cat(<<Chr(":"), Grp("second", DigN(2))>>))>>)
IsoAsWritten(s) ==
    LET m == Val(FullMatch(WrittenIso, s)) IN AsWritten(m, s, Field(m, "year", s))
\* C10: when the text is a valid date and time written YYYY-MM-DD HH:MM or
\* YYYY-MM-DD HH:MM:SS with a year of at most 2500, the datetime is that
\* year, month, day and time.
C10_IsoDateKeepsItsFields ==
    (/\ Returned
     /\ FullMatch(WrittenIso, text) # None
     /\ IsoAsWritten(text).year <= 2500
     /\ datetime(IsoAsWritten(text).year, IsoAsWritten(text).month,
                 IsoAsWritten(text).day, IsoAsWritten(text).hour,
                 IsoAsWritten(text).minute, IsoAsWritten(text).second).ok)
    => Out.date_time = Some(IsoAsWritten(text))

=============================================================================
